---- MODULE Spec2Model ----
(***************************************************************************)
(* KR_TGM: the Streamlit dashboard of src/streamlit_app.py.                *)
(*                                                                         *)
(* The program is a script that Streamlit runs from top to bottom once per *)
(* widget event and per st.rerun(), for every browser session, against one *)
(* psycopg2 connection shared by all sessions (st.cache_resource).         *)
(*                                                                         *)
(* State: each session's st.session_state (user, page) and its position    *)
(* (idle, a pending st.rerun, a db_execute between its statement and its   *)
(* commit); the connection's transaction status and its view of the three  *)
(* tables; the committed tables; the live column sets of the machines and  *)
(* maintenance tables (the schema lives in the database, not in the code). *)
(*                                                                         *)
(* Text values are sequences of one-character strings, so that strip(),    *)
(* lower(), isdigit(), int() and the substring test are computed and not   *)
(* assumed.  A word that the code only compares as a whole (an estado, a   *)
(* tipo) is a one-element sequence.                                        *)
(*                                                                         *)
(* db_connect is taken to return the psycopg2 connection its body names:   *)
(* line 7 imports psycopg, line 8 imports from psycopg2.extras, so the     *)
(* name psycopg2 of line 95 is bound only where the deployment binds it.   *)
(***************************************************************************)
EXTENDS Integers, Sequences, FiniteSets, TLC

(* ----------------------------- bounds --------------------------------- *)

\* rows of an uploaded CSV
MaxCsvRows == 2
\* rows of the maintenance table
MaxMaint == 1
\* rows the users page may add to the users table
MaxNewUsers == 1
\* ALTER TABLE ... ADD COLUMN statements of the database's administrator
MaxAlter == 1

\* two browser sessions, each a thread of the one Streamlit process
Sessions == {"s1", "s2"}

(* ------------------------------ text ---------------------------------- *)

Digits == <<"0", "1", "2", "3", "4", "5", "6", "7", "8", "9">>

DigitVal(c) == (CHOOSE i \in 1..Len(Digits) : Digits[i] = c) - 1

IsDigitChar(c) == \E i \in 1..Len(Digits) : Digits[i] = c

\* str.isdigit(): non-empty and every character a digit
isdigit(t) == Len(t) > 0 /\ \A i \in 1..Len(t) : IsDigitChar(t[i])

RECURSIVE int(_)
\* int() of a string of digits
int(t) == IF Len(t) = 0 THEN 0
          ELSE int(SubSeq(t, 1, Len(t) - 1)) * Len(Digits) + DigitVal(t[Len(t)])

RECURSIVE str(_)
\* str() of a non-negative integer
str(n) == IF n < Len(Digits) THEN <<Digits[n + 1]>>
          ELSE str(n \div Len(Digits)) \o <<Digits[(n % Len(Digits)) + 1]>>

RECURSIVE lstrip(_)
lstrip(t) == IF Len(t) > 0 /\ t[1] = " " THEN lstrip(Tail(t)) ELSE t

RECURSIVE rstrip(_)
rstrip(t) == IF Len(t) > 0 /\ t[Len(t)] = " " THEN rstrip(SubSeq(t, 1, Len(t) - 1)) ELSE t

\* str.strip()
strip(t) == rstrip(lstrip(t))

LowerChar(c) == CASE c = "A" -> "a" [] c = "B" -> "b" [] c = "T" -> "t" [] OTHER -> c

\* str.lower()
lower(t) == [i \in 1..Len(t) |-> LowerChar(t[i])]

\* Python's  x in y  for strings
contains(y, x) == \E i \in 0..(Len(y) - Len(x)) : SubSeq(y, i + 1, i + Len(x)) = x

\* SQL NULL, Python None, for a text value
Null == <<"<null>">>

\* Python's  (x or "")
orEmpty(x) == IF x = Null THEN <<>> ELSE x

(* ---------------------------- constants ------------------------------- *)

ESTADOS_MAQUINA == << <<"Operativa">>, <<"Fuera de Servicio">>, <<"En Mantencion">>,
                      <<"En Prueba">>, <<"Baja">>, <<"Otro">> >>

TIPOS_MANTENCION == << <<"Preventiva">>, <<"Correctiva">>, <<"Inspeccion">>, <<"Otro">> >>

MACHINE_COLS == <<"id_maquina", "serie", "fabricante", "modelo", "juego", "sector",
                  "banco", "estado", "notas">>

\* the column list of the insert of page_register_maintenance
MAINT_COLS == <<"id_maquina", "fecha", "tipo", "estado_final", "falla", "diagnostico",
                "accion", "repuestos", "link_adjuntos", "tecnico", "created_at">>

\* the keys page_history reads from each maintenance row
HISTORY_KEYS == <<"fecha", "tipo", "tecnico", "estado_final", "falla", "diagnostico",
                  "accion", "repuestos", "link_adjuntos">>

Range(f) == {f[i] : i \in DOMAIN f}

PAGES == {"Login", "Maquinas", "Registrar", "Historial", "Usuarios"}

ROLES == {"tecnico", "supervisor", "admin"}

(* ------------------------------ rows ---------------------------------- *)

VA == <<"A">>

VB == <<"B">>

\* the text values a form field or a CSV cell takes
Vals == {VA, VB}

MachineIds == {1, 2}

ColSet(W) == Range(W)

FullMachine == ColSet(MACHINE_COLS)

\* the machines table of the spec's scenario
ScenarioMachine == {"id_maquina", "fabricante", "sector"}

\* a machines table with a column the code never names
WideMachine == FullMachine \cup {"created_at"}

FullMaint == ColSet(MAINT_COLS) \cup {"id"}

\* a maintenance table that has some of the inserted columns
PartialMaint == {"id", "id_maquina", "fecha", "tipo", "created_at"}

\* a maintenance table that has none of the inserted columns
ForeignMaint == {"id", "detalle"}

\* the live schemas the database may have when the program starts
SchemaCases == { [machines |-> FullMachine, maintenance |-> FullMaint],
                 [machines |-> WideMachine, maintenance |-> FullMaint],
                 [machines |-> ScenarioMachine, maintenance |-> FullMaint],
                 [machines |-> FullMachine, maintenance |-> PartialMaint],
                 [machines |-> FullMachine, maintenance |-> ForeignMaint] }

\* the columns an administrator may add to the machines table
AlterCols == {"banco", "modelo"}

\* the nine values of one machine, keyed by MACHINE_COLS
MachineValues(id, v, estado) ==
    [c \in FullMachine |-> CASE c = "id_maquina" -> id
                            [] c = "estado" -> estado
                            [] OTHER -> v]

\* a stored row: the columns of the table, NULL where no value was given
StoredRow(values, cols) ==
    [c \in cols |-> IF c \in DOMAIN values THEN values[c] ELSE Null]

\* dict.get(k, default)
get(r, k, default) == IF k \in DOMAIN r THEN r[k] ELSE default

(* ------------------------------ users --------------------------------- *)

\* pwd_context.hash: a bcrypt hash, which verifies exactly its own password
hash(pw) == <<"$2b$", pw>>

Passwords == {"p", "q"}

\* session_state["user"] = None
NoUser == [id |-> 0, username |-> <<>>, role |-> "", nombre |-> <<>>]

InitUsers ==
    { [id |-> 1, username |-> <<"a">>, password_hash |-> hash("p"), role |-> "admin",
       nombre |-> <<"A">>, is_active |-> TRUE],
      [id |-> 2, username |-> <<"t">>, password_hash |-> hash("p"), role |-> "tecnico",
       nombre |-> Null, is_active |-> TRUE],
      [id |-> 3, username |-> <<"b">>, password_hash |-> hash("p"), role |-> "supervisor",
       nombre |-> <<"B">>, is_active |-> FALSE] }

(* ------------------------------ state --------------------------------- *)

VARIABLES
    user,       \* user[s]: st.session_state["user"] of session s
    page,       \* page[s]: st.session_state["page"] of session s
    pc,         \* pc[s]: "idle", "rerun" (st.rerun() raised), "commit" (inside db_execute)
    job,        \* job[s]: what session s does once its conn.commit() returns
    filters,    \* filters[s]: the filter widgets of the machines page of session s
    out,        \* what the last script run, of any session, rendered and touched
    db,         \* the committed tables
    tx,         \* the tables as the connection's open transaction sees them
    txStatus,   \* "idle", "intrans" or "inerror": the connection's transaction status
    schema,     \* the live column sets of machines and maintenance
    alters,     \* ALTER TABLE statements run so far
    hist        \* the last write statement the connection executed

vars == <<user, page, pc, job, filters, out, db, tx, txStatus, schema, alters, hist>>

(* ------------------------- the connection ----------------------------- *)

\* cur.execute raises: the statement is invalid against the live schema, or the
\* transaction is already aborted (InFailedSqlTransaction)
Raises(st, valid) == st = "inerror" \/ ~valid

\* the transaction status cur.execute leaves: psycopg2 opens a transaction at the
\* first statement, and a statement that raises aborts it
AfterStmt(st, valid) == IF Raises(st, valid) THEN "inerror" ELSE "intrans"

\* db_fetchone / db_fetchall: one statement, neither commit nor rollback
db_fetch(b, valid, tag) ==
    [b EXCEPT !.txStatus = AfterStmt(b.txStatus, valid),
              !.raised = Raises(b.txStatus, valid),
              !.out.touched = @ \cup {tag}]

NoValues == MachineValues(0, <<>>, <<>>)

\* hist: the last statement db_execute ran in the open transaction, kept for an
\* upsert with its parameters, whether the statement before it was the same upsert,
\* and whether it left the table as it found it
NoHist == [kind |-> "none", values |-> NoValues, repeat |-> FALSE, same |-> FALSE]

OtherHist == [NoHist EXCEPT !.kind = "other"]

\* db_execute up to its conn.commit(): the statement runs in the connection's
\* transaction; `tables` is what it makes of the tables when it is valid
db_execute(b, valid, tables, h, tag) ==
    IF Raises(b.txStatus, valid)
    THEN [b EXCEPT !.txStatus = "inerror", !.raised = TRUE, !.hist = NoHist,
                   !.out.touched = @ \cup {tag}]
    ELSE [b EXCEPT !.txStatus = "intrans", !.raised = FALSE, !.tx = tables, !.hist = h,
                   !.pc = "commit", !.out.touched = @ \cup {tag}]

(* ------------------------------- auth --------------------------------- *)

\* a gate that lets every session through
is_logged_in_always(s) == TRUE

is_logged_in(s) == user[s] # NoUser

current_user(s) == user[s]

\* a gate that asks for a user, whatever the role
require_admin_any_role(s) ==
    LET u == current_user(s) IN u # NoUser

require_admin(s) ==
    LET u == current_user(s) IN u # NoUser /\ u.role = "admin"

\* pwd_context.verify raises on a string that is no bcrypt hash
verify_password(plain, password_hash) ==
    IF Len(password_hash) = Len(hash(plain)) /\ password_hash[1] = hash(plain)[1]
    THEN password_hash = hash(plain)
    ELSE FALSE

\* job: what a run does after the conn.commit() it waits for; cur: the parameters
\* of the last statement the run gave to db_execute
NoJob == [kind |-> "none", rest |-> <<>>, count |-> 0, cur |-> NoValues]

NoFilter == [id |-> <<>>, fab |-> <<>>, sector |-> <<>>, modelo |-> <<>>, banco |-> <<>>,
             estado |-> <<"(Todos)">>]

\* no call of login_user in the run
NoLogin == [called |-> FALSE, username |-> <<>>, password |-> "", user |-> NoUser,
            page |-> "Login"]

\* nothing rendered by a page body yet
NoOut == [s |-> "", requested |-> "Login", body |-> "none", as |-> NoUser, touched |-> {}, msg |-> "", event |-> "none",
          rows |-> <<>>, filtered |-> <<>>, filters |-> NoFilter, csv |-> <<>>,
          show |-> <<>>, found |-> FALSE, added |-> 0, alters |-> 0,
          login |-> NoLogin]

\* login_user, from the row the select returned (rows: the users the statement saw)
login_user(b, username, password) ==
    LET b0 == [b EXCEPT !.out.login = [called |-> TRUE, username |-> username,
                                       password |-> password, user |-> b.user,
                                       page |-> b.page]]
        b1 == db_fetch(b0, TRUE, "users.login")
        found == {u \in b.tx.users : u.username = lower(strip(username))}
    IN  IF b1.raised THEN [b1 EXCEPT !.out.msg = "exception"]
        ELSE IF found = {} \/ ~(CHOOSE u \in found : TRUE).is_active
        THEN [b1 EXCEPT !.out.msg = "no existe o desactivado"]
        ELSE LET u == CHOOSE u \in found : TRUE IN
             IF ~verify_password(password, u.password_hash)
             THEN [b1 EXCEPT !.out.msg = "incorrecta"]
             ELSE [b1 EXCEPT !.user = [id |-> u.id, username |-> u.username,
                                       role |-> u.role,
                                       nombre |-> IF orEmpty(u.nombre) # <<>>
                                                  THEN u.nombre ELSE u.username],
                             !.out.msg = "ok"]

page_login(s, ev, b) ==
    IF ev.type # "login" THEN b
    ELSE IF strip(ev.username) = <<>> \/ ev.password = ""
    THEN [b EXCEPT !.out.msg = "completa"]
    ELSE LET r == login_user(b, ev.username, ev.password) IN
         IF r.out.msg = "ok"
         THEN [r EXCEPT !.page = "Maquinas", !.pc = "rerun"]
         ELSE r

(* ------------------------------- CSV ---------------------------------- *)

\* csv.DictWriter's cell for key k of a row: str() of the value, "" for None
CsvCell(k, x) ==
    IF k = "id_maquina" THEN str(x) ELSE orEmpty(x)

\* an export of the columns the rows have, in MACHINE_COLS order
machines_to_csv_live(rows) ==
    LET W == IF rows = <<>> THEN MACHINE_COLS
             ELSE SelectSeq(MACHINE_COLS, LAMBDA c : c \in DOMAIN rows[1])
    IN  <<W>> \o
        [i \in 1..Len(rows) |-> [j \in 1..Len(W) |-> CsvCell(W[j], rows[i][W[j]])]]

\* machines_to_csv: the header, then one line per row with a cell per MACHINE_COLS
machines_to_csv(rows) ==
    <<MACHINE_COLS>> \o
    [i \in 1..Len(rows) |->
        [j \in 1..Len(MACHINE_COLS) |->
            LET k == MACHINE_COLS[j] IN
            IF k \in DOMAIN rows[i] THEN CsvCell(k, rows[i][k]) ELSE <<>>]]

\* str.strip() of a header name: the one padded name an upload may carry
stripName(n) == IF n = " notas" THEN "notas" ELSE n

\* parse_csv_bytes, from what csv.DictReader reads: the header and one dict per line
parse_csv_bytes(file) ==
    LET cols == {stripName(file.fieldnames[i]) : i \in 1..Len(file.fieldnames)}
        missing == SelectSeq(MACHINE_COLS, LAMBDA c : c \notin cols)
    IN  IF missing # <<>> THEN [ok |-> FALSE, rows |-> <<>>]
        ELSE [ok |-> TRUE,
              rows |-> [i \in 1..Len(file.rows) |->
                         [k \in FullMachine |->
                            strip(orEmpty(get(file.rows[i], k, Null)))]]]

\* lines 327-330: the machine id of an incoming row, 0 when it has none
mid(r) == IF isdigit(strip(r["id_maquina"])) THEN int(r["id_maquina"]) ELSE 0

\* lines 330, 347-357: the parameters of the upsert of an incoming row
UpsertParams(r) ==
    [k \in FullMachine |->
        CASE k = "id_maquina" -> mid(r)
          [] k = "estado" -> IF r["estado"] \in Range(ESTADOS_MAQUINA)
                             THEN r["estado"] ELSE ESTADOS_MAQUINA[1]
          [] OTHER -> r[k]]

(* ---------------------------- statements ------------------------------ *)

\* the insert with `on conflict (id_maquina) do nothing`
UpsertDoNothing(table, cols, v) ==
    IF \E r \in table : r["id_maquina"] = v["id_maquina"]
    THEN table
    ELSE table \cup {StoredRow(v, cols)}

\* the insert whose `do update set` leaves `notas` out
UpsertWithoutNotas(table, cols, v) ==
    IF \E r \in table : r["id_maquina"] = v["id_maquina"]
    THEN { IF r["id_maquina"] = v["id_maquina"]
           THEN [c \in DOMAIN r |->
                   IF c \in FullMachine \ {"id_maquina", "notas"} THEN v[c] ELSE r[c]]
           ELSE r : r \in table }
    ELSE table \cup {StoredRow(v, cols)}

\* insert into machines (MACHINE_COLS) ... on conflict (id_maquina) do update set
\* the eight other columns: what the statement makes of the table
Upsert(table, cols, v) ==
    IF \E r \in table : r["id_maquina"] = v["id_maquina"]
    THEN { IF r["id_maquina"] = v["id_maquina"]
           THEN [c \in DOMAIN r |->
                   IF c \in FullMachine \ {"id_maquina"} THEN v[c] ELSE r[c]]
           ELSE r : r \in table }
    ELSE table \cup {StoredRow(v, cols)}

\* update machines set (the eight columns) where id_maquina = id
Update(table, id, v) ==
    { IF r["id_maquina"] = id
      THEN [c \in DOMAIN r |-> IF c \in FullMachine \ {"id_maquina"} THEN v[c] ELSE r[c]]
      ELSE r : r \in table }

\* insert into maintenance (MAINT_COLS): the serial id is the table's own
InsertMaintenance(rows, cols, values) ==
    LET r == StoredRow(values, cols) IN
    Append(rows, IF "id" \in cols THEN [r EXCEPT !["id"] = Len(rows) + 1] ELSE r)

\* a select that names three columns instead of the star
SelectNamed(table) == {[c \in DOMAIN r \cap ScenarioMachine |-> r[c]] : r \in table}

\* select * from machines: every row with every live column
SelectStar(table) == table

RECURSIVE SortById(_)
\* order by id_maquina asc
SortById(S) ==
    IF S = {} THEN <<>>
    ELSE LET m == CHOOSE r \in S : \A q \in S : r["id_maquina"] <= q["id_maquina"]
         IN  <<m>> \o SortById(S \ {m})

\* page_machines.match (lines 288-302)
match(row, f) ==
    /\ strip(f.id) # <<>> => contains(str(row["id_maquina"]), strip(f.id))
    /\ strip(f.fab) # <<>> =>
          contains(lower(orEmpty(get(row, "fabricante", Null))), lower(strip(f.fab)))
    /\ strip(f.sector) # <<>> =>
          contains(lower(orEmpty(get(row, "sector", Null))), lower(strip(f.sector)))
    /\ strip(f.modelo) # <<>> =>
          contains(lower(orEmpty(get(row, "modelo", Null))), lower(strip(f.modelo)))
    /\ strip(f.banco) # <<>> =>
          contains(lower(orEmpty(get(row, "banco", Null))), lower(strip(f.banco)))
    /\ f.estado # <<"(Todos)">> => orEmpty(get(row, "estado", Null)) = f.estado

(* ------------------------------ pages --------------------------------- *)

\* an uncaught exception ends the script run
Uncaught(b) == [b EXCEPT !.out.msg = "exception", !.pc = "idle"]

RECURSIVE SkipInvalid(_)
\* lines 327-329: rows without a machine id are passed over
SkipInvalid(rows) ==
    IF rows # <<>> /\ mid(Head(rows)) = 0 THEN SkipInvalid(Tail(rows)) ELSE rows

\* lines 325-361: the import loop from `rows` on, up to the next conn.commit();
\* when the loop is over, st.success and st.rerun
ImportLoop(b, rows, count) ==
    LET rs == SkipInvalid(rows) IN
    IF rs = <<>>
    THEN [b EXCEPT !.out.msg = "importacion lista", !.pc = "rerun"]
    ELSE LET v == UpsertParams(Head(rs))
             r == db_execute(b, FullMachine \subseteq schema.machines,
                             [b.tx EXCEPT !.machines = Upsert(@, schema.machines, v)],
                             [kind |-> "upsert", values |-> v,
                              repeat |-> b.hist.kind = "upsert" /\ b.hist.values = v,
                              same |-> Upsert(b.tx.machines, schema.machines, v)
                                         = b.tx.machines],
                             "machines.write")
         IN  IF r.raised THEN [r EXCEPT !.out.msg = "error importando"]
             ELSE [r EXCEPT !.job = [kind |-> "import", rest |-> Tail(rs),
                                     count |-> count + 1, cur |-> v]]

\* lines 365-428: the list, the selector, the history button and the edit form
MachinesList(b, ev) ==
    LET filtered == b.out.filtered
        ids == [i \in 1..Len(filtered) |-> filtered[i]["id_maquina"]]
    IN  IF filtered = <<>> THEN b
        ELSE LET selected_id == IF ev.type \in {"quick", "edit"} /\ ev.selected \in Range(ids)
                                THEN ev.selected ELSE ids[1]
             IN  IF ev.type = "quick"
                 THEN [b EXCEPT !.page = "Historial", !.pc = "rerun"]
                 ELSE LET b1 == db_fetch(b, "id_maquina" \in schema.machines, "machines.read")
                      IN  IF b1.raised THEN Uncaught(b1)
                          ELSE IF ev.type # "edit" THEN b1
                          ELSE LET v == MachineValues(ev.id_maquina, ev.v, ev.estado)
                                   r == db_execute(b1, FullMachine \subseteq schema.machines,
                                          [b1.tx EXCEPT !.machines = Update(@, ev.id_maquina, v)],
                                          OtherHist,
                                          "machines.write")
                               IN  IF r.raised THEN [r EXCEPT !.out.msg = "error actualizando"]
                                   ELSE [r EXCEPT !.job = [NoJob EXCEPT !.kind = "edit", !.cur = v]]

page_machines(s, ev, b) ==
    IF ~is_logged_in(s) THEN [b EXCEPT !.out.msg = "debes iniciar sesion"]
    ELSE LET b1 == db_fetch([b EXCEPT !.out.body = "Maquinas", !.out.event = ev.type],
                            "id_maquina" \in schema.machines, "machines.read")
         IN  IF b1.raised THEN Uncaught(b1)
             ELSE LET rows == SortById(SelectStar(b.tx.machines))
                      filtered == SelectSeq(rows, LAMBDA r : match(r, ev.f))
                      b2 == [b1 EXCEPT !.out.rows = rows, !.out.filtered = filtered,
                                       !.out.alters = alters,
                                       !.out.filters = ev.f, !.filters = ev.f,
                                       !.out.csv = machines_to_csv(filtered)]
                  IN  IF ev.type # "import" THEN MachinesList(b2, ev)
                      ELSE LET incoming == parse_csv_bytes(ev.file) IN
                           IF ~incoming.ok
                           THEN MachinesList([b2 EXCEPT !.out.msg = "csv invalido"], ev)
                           ELSE LET r == ImportLoop(b2, incoming.rows, 0) IN
                                IF r.raised THEN MachinesList(r, ev) ELSE r

\* the slider's default for "Maximo de registros"
HistoryLimit == 100

\* lines 471-482: the parameters of the insert of one maintenance record
MaintValues(id, v, tecnico) ==
    [c \in ColSet(MAINT_COLS) |->
        CASE c = "id_maquina" -> id
          [] c = "fecha" -> <<"today">>
          [] c = "tipo" -> TIPOS_MANTENCION[1]
          [] c = "estado_final" -> ESTADOS_MAQUINA[1]
          [] c = "tecnico" -> tecnico
          [] c = "created_at" -> <<"now">>
          [] OTHER -> v]

\* a select without its where clause
FindAnyMachine(table, id) == table

\* line 459: select id_maquina from public.machines where id_maquina = id
FindMachine(table, id) == {r \in table : r["id_maquina"] = id}

page_register_maintenance(s, ev, b) ==
    IF ~is_logged_in(s) THEN [b EXCEPT !.out.msg = "debes iniciar sesion"]
    ELSE LET b0 == [b EXCEPT !.out.body = "Registrar", !.out.event = ev.type] IN
         IF ev.type # "register" THEN b0
         ELSE LET b1 == db_fetch(b0, "id_maquina" \in schema.machines, "machines.read")
                  m == FindMachine(b.tx.machines, ev.id_maquina)
              IN  IF b1.raised THEN [b1 EXCEPT !.out.msg = "error guardando"]
                  ELSE IF m = {} THEN [b1 EXCEPT !.out.msg = "no existe"]
                  ELSE LET values == MaintValues(ev.id_maquina, ev.v, current_user(s).nombre)
                           r == db_execute([b1 EXCEPT !.out.found = TRUE],
                                  ColSet(MAINT_COLS) \subseteq schema.maintenance,
                                  [b1.tx EXCEPT !.maintenance =
                                      InsertMaintenance(@, schema.maintenance, values)],
                                  OtherHist,
                                  "maintenance.write")
                       IN  IF r.raised THEN [r EXCEPT !.out.msg = "error guardando"]
                           ELSE [r EXCEPT !.out.added = Len(r.tx.maintenance) - Len(b1.tx.maintenance),
                                          !.job = [NoJob EXCEPT !.kind = "register"]]

\* lines 553-567: what the history table shows of one maintenance row
ShowRow(r) == [k \in ColSet(HISTORY_KEYS) |-> get(r, k, Null)]

page_history(s, ev, b) ==
    IF ~is_logged_in(s) THEN [b EXCEPT !.out.msg = "debes iniciar sesion"]
    ELSE LET b0 == [b EXCEPT !.out.body = "Historial", !.out.event = ev.type]
             id_str == IF ev.type = "history" THEN ev.id_str ELSE <<>>
         IN  IF strip(id_str) = <<>> THEN [b0 EXCEPT !.out.msg = "ingresa un id"]
             ELSE IF ~isdigit(strip(id_str)) THEN [b0 EXCEPT !.out.msg = "debe ser numerico"]
             ELSE LET b1 == db_fetch(b0, "id_maquina" \in schema.machines, "machines.read")
                      m == {r \in b.tx.machines : r["id_maquina"] = int(strip(id_str))}
                  IN  IF b1.raised THEN Uncaught(b1)
                      ELSE IF m = {} THEN [b1 EXCEPT !.out.msg = "no existe"]
                      ELSE LET b2 == db_fetch(b1, {"id_maquina", "fecha", "created_at"}
                                                    \subseteq schema.maintenance
                                                  /\ (ev.tipo # <<"(Todos)">> =>
                                                        "tipo" \in schema.maintenance),
                                              "maintenance.read")
                               rows == SelectSeq(b.tx.maintenance,
                                         LAMBDA r : /\ r["id_maquina"] = int(strip(id_str))
                                                    /\ ev.tipo # <<"(Todos)">> =>
                                                         r["tipo"] = ev.tipo)
                           IN  IF b2.raised THEN Uncaught(b2)
                               ELSE [b2 EXCEPT !.out.found = TRUE,
                                       !.out.show =
                                         [i \in 1..(IF Len(rows) < HistoryLimit THEN Len(rows)
                                                    ELSE HistoryLimit) |-> ShowRow(rows[i])]]

page_users(s, ev, b) ==
    IF ~is_logged_in(s) THEN [b EXCEPT !.out.msg = "debes iniciar sesion"]
    ELSE IF ~require_admin(s) THEN [b EXCEPT !.out.msg = "solo admin"]
    ELSE LET b1 == db_fetch([b EXCEPT !.out.body = "Usuarios", !.out.event = ev.type],
                            TRUE, "users.list")
         IN  IF b1.raised THEN Uncaught(b1)
             ELSE IF ev.type = "create"
             THEN IF strip(ev.username) = <<>> \/ ev.password = ""
                  THEN [b1 EXCEPT !.out.msg = "obligatorios"]
                  ELSE LET u == lower(strip(ev.username))
                           row == [id |-> Cardinality(b1.tx.users) + 1, username |-> u,
                                   password_hash |-> hash(ev.password), role |-> ev.role,
                                   nombre |-> ev.nombre, is_active |-> ev.is_active]
                           r == db_execute(b1, \A x \in b1.tx.users : x.username # u,
                                  [b1.tx EXCEPT !.users = @ \cup {row}],
                                  OtherHist,
                                  "users.insert")
                       IN  IF r.raised THEN [r EXCEPT !.out.msg = "error creando"]
                           ELSE [r EXCEPT !.job = [NoJob EXCEPT !.kind = "user"]]
             ELSE IF ev.type = "reset"
             THEN IF strip(ev.username) = <<>> \/ ev.password = ""
                  THEN [b1 EXCEPT !.out.msg = "completa"]
                  ELSE LET u == lower(strip(ev.username))
                           r == db_execute(b1, TRUE,
                                  [b1.tx EXCEPT !.users =
                                     { IF x.username = u
                                       THEN [x EXCEPT !.password_hash = hash(ev.password)]
                                       ELSE x : x \in @ }],
                                  OtherHist,
                                  "users.reset")
                       IN  IF r.raised THEN [r EXCEPT !.out.msg = "error actualizando"]
                           ELSE [r EXCEPT !.job = [NoJob EXCEPT !.kind = "user"]]
             ELSE b1

(* --------------------------- the script run --------------------------- *)

\* lines 644-671: one run of the script for session s on widget event ev, after
\* render_sidebar (whose tables_exist is one db_fetchone, its exception caught)
\* found no sidebar button pressed
Dispatch(s, ev) ==
    LET gated == IF page[s] # "Login" /\ ~is_logged_in(s) THEN "Login" ELSE page[s]
        b == [user |-> user[s], page |-> gated, pc |-> "idle", job |-> NoJob,
              filters |-> NoFilter,
              out |-> [NoOut EXCEPT !.s = s, !.as = user[s], !.requested = page[s]],
              tx |-> tx,
              txStatus |-> AfterStmt(txStatus, TRUE), hist |-> hist, raised |-> FALSE]
    IN  CASE gated = "Login" -> page_login(s, ev, b)
          [] gated = "Maquinas" -> page_machines(s, ev, b)
          [] gated = "Registrar" -> page_register_maintenance(s, ev, b)
          [] gated = "Historial" -> page_history(s, ev, b)
          [] gated = "Usuarios" -> page_users(s, ev, b)
          [] OTHER -> [b EXCEPT !.page = "Login", !.pc = "rerun"]

\* the session and connection state a run, or the rest of one, leaves
Leave(s, r) ==
    /\ user' = [user EXCEPT ![s] = r.user]
    /\ page' = [page EXCEPT ![s] = r.page]
    /\ pc' = [pc EXCEPT ![s] = r.pc]
    /\ job' = [job EXCEPT ![s] = r.job]
    /\ filters' = [filters EXCEPT ![s] = r.filters]
    /\ out' = r.out
    /\ tx' = r.tx
    /\ txStatus' = r.txStatus
    /\ hist' = r.hist

Script(s, ev) ==
    /\ Leave(s, Dispatch(s, ev))
    /\ UNCHANGED <<db, schema, alters>>

(* ------------------------------ inputs -------------------------------- *)

FilterInputs == { NoFilter,
                  [NoFilter EXCEPT !.fab = <<"b">>],
                  [NoFilter EXCEPT !.banco = <<"B", " ">>],
                  [NoFilter EXCEPT !.estado = ESTADOS_MAQUINA[5]] }

LoginNames == { <<"a">>, <<" ", "T">>, <<"b">>, <<"s">>, <<" ">> }

LoginPasswords == Passwords \cup {""}

CsvIds == { <<"1">>, <<"2", " ">>, <<"0">> }

\* the text and the estado of a line: one estado of ESTADOS_MAQUINA, one that is not
CsvCells == { [v |-> VA, estado |-> ESTADOS_MAQUINA[5]], [v |-> VB, estado |-> <<"roto">>] }

\* the headers an upload may have: exactly MACHINE_COLS, one more column, one
\* column short, one name padded
CsvHeaders == { MACHINE_COLS,
                MACHINE_COLS \o <<"estadoX">>,
                SubSeq(MACHINE_COLS, 1, Len(MACHINE_COLS) - 1),
                SubSeq(MACHINE_COLS, 1, Len(MACHINE_COLS) - 1) \o <<" notas">> }

\* an upload: line i has machine id ids[i] and the cells cells[i]
CsvFile(header, ids, cells) ==
    [fieldnames |-> header,
     rows |-> [i \in 1..Len(ids) |->
                 [n \in Range(header) |->
                    CASE n = "id_maquina" -> ids[i]
                      [] n = "estado" -> cells[i].estado
                      [] OTHER -> cells[i].v]]]

\* uploads of up to MaxCsvRows lines with the same cells, and one-line uploads
\* under every header
CsvFiles ==
    { CsvFile(MACHINE_COLS, ids, [i \in DOMAIN ids |-> c]) :
        ids \in UNION {[1..n -> CsvIds] : n \in 0..MaxCsvRows}, c \in CsvCells }
    \cup { CsvFile(h, <<id>>, <<c>>) :
             h \in CsvHeaders, id \in CsvIds \cup {<<"x">>}, c \in CsvCells }

\* uploads about machine 1 alone: up to MaxCsvRows lines, each with its own cells
RaceFiles ==
    { CsvFile(MACHINE_COLS, [i \in DOMAIN cells |-> <<"1">>], cells) :
        cells \in UNION {[1..n -> CsvCells] : n \in 1..MaxCsvRows} }
    \cup { CsvFile(MACHINE_COLS \o <<"estadoX">>, <<<<"1">>>>, <<c>>) : c \in CsvCells }

HistoryIds == { <<>>, <<"2">>, <<"1", " ">>, <<"x">> }

HistoryTipos == { <<"(Todos)">>, TIPOS_MANTENCION[1] }

NewNames == { <<"S">>, <<"t">> }

NewPasswords == { "q", "" }

ResetNames == { <<"t">>, <<"x">> }

\* the ids a number_input may hold: the machines, and one that is none
FormIds == MachineIds \cup {3}

(* ------------------------------ actions ------------------------------- *)

\* "Cerrar sesion" pressed: logout() (lines 138-141), rendered only for a user
Logout(s) ==
    /\ pc[s] = "idle"
    /\ current_user(s) # NoUser
    /\ user' = [user EXCEPT ![s] = NoUser]
    /\ page' = [page EXCEPT ![s] = "Login"]
    /\ pc' = [pc EXCEPT ![s] = "rerun"]
    /\ filters' = [filters EXCEPT ![s] = NoFilter]
    /\ out' = [NoOut EXCEPT !.s = s, !.event = "logout"]
    /\ txStatus' = AfterStmt(txStatus, TRUE)
    /\ UNCHANGED <<job, db, tx, schema, alters, hist>>

\* a navigation button pressed: nav_button (lines 173-180)
NavButton(s, page_name) ==
    /\ pc[s] = "idle"
    /\ page' = [page EXCEPT ![s] = page_name]
    /\ pc' = [pc EXCEPT ![s] = "rerun"]
    /\ filters' = [filters EXCEPT ![s] = NoFilter]
    /\ out' = [NoOut EXCEPT !.s = s, !.event = "nav"]
    /\ txStatus' = AfterStmt(txStatus, TRUE)
    /\ UNCHANGED <<user, job, db, tx, schema, alters, hist>>

\* the filter widgets of the machines page keep their values from run to run for
\* as long as the page renders them
Filters(s) == filters[s]

\* the run st.rerun() starts: no widget event
ScriptRerun(s) ==
    /\ pc[s] = "rerun"
    /\ Script(s, [type |-> "view", f |-> Filters(s)])

LoginSubmit(s, username, password) ==
    /\ pc[s] = "idle" /\ page[s] = "Login"
    /\ Script(s, [type |-> "login", username |-> username, password |-> password])

MachinesView(s, f) ==
    /\ pc[s] = "idle" /\ page[s] = "Maquinas"
    /\ Script(s, [type |-> "view", f |-> f])

ImportCSV(s, file) ==
    /\ pc[s] = "idle" /\ page[s] = "Maquinas"
    /\ Script(s, [type |-> "import", f |-> Filters(s), file |-> file])

QuickHistory(s, selected) ==
    /\ pc[s] = "idle" /\ page[s] = "Maquinas"
    /\ Script(s, [type |-> "quick", f |-> Filters(s), selected |-> selected])

EditMachine(s, selected, id, v, estado) ==
    /\ pc[s] = "idle" /\ page[s] = "Maquinas"
    /\ Script(s, [type |-> "edit", f |-> Filters(s), selected |-> selected,
                   id_maquina |-> id, v |-> v, estado |-> estado])

RegisterMaintenance(s, id, v) ==
    /\ pc[s] = "idle" /\ page[s] = "Registrar"
    /\ Len(tx.maintenance) < MaxMaint
    /\ Script(s, [type |-> "register", id_maquina |-> id, v |-> v])

HistoryView(s, id_str, tipo) ==
    /\ pc[s] = "idle" /\ page[s] = "Historial"
    /\ Script(s, [type |-> "history", id_str |-> id_str, tipo |-> tipo])

CreateUser(s, username, role, password) ==
    /\ pc[s] = "idle" /\ page[s] = "Usuarios"
    /\ Cardinality(tx.users) < Cardinality(InitUsers) + MaxNewUsers
    /\ Script(s, [type |-> "create", username |-> username, role |-> role,
                   password |-> password, nombre |-> <<>>, is_active |-> TRUE])

ResetPassword(s, username, password) ==
    /\ pc[s] = "idle" /\ page[s] = "Usuarios"
    /\ Script(s, [type |-> "reset", username |-> username, password |-> password])

\* conn.commit() of db_execute (line 113) and what the caller does after it.
\* COMMIT of an aborted transaction is a ROLLBACK that raises nothing.  When the
\* import's next statement raises, the rest of the run renders the list from the
\* rows read before the import and its db_fetchone raises too: no state changes.
Commit(s) ==
    /\ pc[s] = "commit"
    /\ LET rolled == txStatus = "inerror"
           committed == IF rolled THEN db ELSE tx
           b == [user |-> user[s], page |-> page[s], pc |-> "idle",
                 job |-> [NoJob EXCEPT !.cur = job[s].cur],
                 filters |-> filters[s],
                 out |-> [NoOut EXCEPT !.s = s, !.as = user[s], !.requested = page[s],
                                       !.body = page[s], !.event = "commit"],
                 tx |-> committed, txStatus |-> "idle",
                 hist |-> IF rolled THEN NoHist ELSE hist, raised |-> FALSE]
           r == CASE job[s].kind = "import" ->
                       ImportLoop(b, job[s].rest, job[s].count)
                  [] job[s].kind = "edit" ->
                       [b EXCEPT !.out.msg = "actualizada", !.pc = "rerun"]
                  [] job[s].kind = "register" -> [b EXCEPT !.out.msg = "registrada"]
                  [] OTHER -> [b EXCEPT !.out.msg = "hecho", !.pc = "rerun"]
       IN  /\ db' = committed
           /\ Leave(s, r)
    /\ UNCHANGED <<schema, alters>>

\* the database's administrator adds a column to the machines table; the statement
\* waits for the locks of the connection's open transaction
AlterAddColumn(c) ==
    /\ alters < MaxAlter
    /\ txStatus = "idle"
    /\ c \in AlterCols \ schema.machines
    /\ alters' = alters + 1
    /\ schema' = [schema EXCEPT !.machines = @ \cup {c}]
    /\ db' = [db EXCEPT !.machines = {StoredRow(r, schema'.machines) : r \in @}]
    /\ tx' = db'
    /\ hist' = NoHist
    /\ UNCHANGED <<user, page, pc, job, filters, out, txStatus>>

InitMachines(cols) == {StoredRow(MachineValues(2, VB, ESTADOS_MAQUINA[1]), cols)}

Init ==
    /\ user = [s \in Sessions |-> NoUser]
    /\ page = [s \in Sessions |-> "Login"]
    /\ pc = [s \in Sessions |-> "idle"]
    /\ job = [s \in Sessions |-> NoJob]
    /\ filters = [s \in Sessions |-> NoFilter]
    /\ out = NoOut
    /\ schema \in SchemaCases
    /\ db = [machines |-> InitMachines(schema.machines), maintenance |-> <<>>,
             users |-> InitUsers]
    /\ tx = db
    /\ txStatus = "idle"
    /\ alters = 0
    /\ hist = NoHist

Next ==
    \/ \E s \in Sessions : Logout(s)
    \/ \E s \in Sessions, p \in PAGES : NavButton(s, p)
    \/ \E s \in Sessions : ScriptRerun(s)
    \/ \E s \in Sessions, u \in LoginNames, p \in LoginPasswords : LoginSubmit(s, u, p)
    \/ \E s \in Sessions, f \in FilterInputs : MachinesView(s, f)
    \/ \E s \in Sessions, file \in CsvFiles : ImportCSV(s, file)
    \/ \E s \in Sessions, m \in MachineIds : QuickHistory(s, m)
    \/ \E s \in Sessions, m \in MachineIds, id \in FormIds, v \in Vals :
          EditMachine(s, m, id, v, ESTADOS_MAQUINA[1])
    \/ \E s \in Sessions, id \in FormIds, v \in Vals : RegisterMaintenance(s, id, v)
    \/ \E s \in Sessions, id \in HistoryIds, t \in HistoryTipos : HistoryView(s, id, t)
    \/ \E s \in Sessions, u \in NewNames, p \in NewPasswords :
          CreateUser(s, u, "supervisor", p)
    \/ \E s \in Sessions, u \in ResetNames, p \in NewPasswords : ResetPassword(s, u, p)
    \/ \E s \in Sessions : Commit(s)
    \/ \E c \in AlterCols : AlterAddColumn(c)

\* the whole program
Spec == Init /\ [][Next]_vars

\* the first session
One == {"s1"}

\* The machines page of one administrator: filters, uploads, edits, and the
\* database's administrator adding columns
NextMachines ==
    \/ \E s \in One : LoginSubmit(s, <<"a">>, "p")
    \/ \E s \in One : ScriptRerun(s)
    \/ \E s \in One, f \in FilterInputs : MachinesView(s, f)
    \/ \E s \in One, file \in CsvFiles : ImportCSV(s, file)
    \/ \E s \in One, m \in MachineIds, id \in FormIds, v \in Vals :
          EditMachine(s, m, id, v, ESTADOS_MAQUINA[1])
    \/ \E s \in One : Commit(s)
    \/ \E c \in AlterCols : AlterAddColumn(c)

SpecMachines == Init /\ [][NextMachines]_vars

\* A technician registering maintenance, reading the history and uploading machines
NextMaint ==
    \/ \E s \in One : LoginSubmit(s, <<" ", "T">>, "p")
    \/ \E s \in One, p \in {"Registrar", "Historial", "Maquinas"} : NavButton(s, p)
    \/ \E s \in One : ScriptRerun(s)
    \/ \E s \in One, file \in RaceFiles : ImportCSV(s, file)
    \/ \E s \in One, id \in FormIds, v \in Vals : RegisterMaintenance(s, id, v)
    \/ \E s \in One, id \in HistoryIds, t \in HistoryTipos : HistoryView(s, id, t)
    \/ \E s \in One : Commit(s)

SpecMaint == Init /\ [][NextMaint]_vars

\* Two administrators importing uploads about the same machine at the same time
NextImport ==
    \/ \E s \in Sessions : LoginSubmit(s, <<"a">>, "p")
    \/ \E s \in Sessions : ScriptRerun(s)
    \/ \E s \in Sessions, file \in RaceFiles : ImportCSV(s, file)
    \/ \E s \in Sessions : Commit(s)

SpecImport == Init /\ [][NextImport]_vars

\* Both sessions navigating, logging in and out and opening every page, one input
\* per form; the first session also edits a machine and resets a password
NextSession ==
    \/ \E s \in Sessions : Logout(s)
    \/ \E s \in Sessions, p \in PAGES : NavButton(s, p)
    \/ \E s \in Sessions : ScriptRerun(s)
    \/ \E s \in Sessions, u \in LoginNames, p \in LoginPasswords : LoginSubmit(s, u, p)
    \/ \E s \in Sessions : QuickHistory(s, 2)
    \/ \E s \in Sessions : HistoryView(s, <<"2">>, <<"(Todos)">>)
    \/ \E s \in Sessions : CreateUser(s, <<"S">>, "supervisor", "q")
    \/ \E s \in One : EditMachine(s, 2, 2, VA, ESTADOS_MAQUINA[1])
    \/ \E s \in One : ResetPassword(s, <<"t">>, "q")
    \/ \E s \in Sessions : Commit(s)

SpecSession == Init /\ [][NextSession]_vars

\* Two administrators: the first uploads and edits machines, both register
\* maintenance, the second also tries to create a user whose name is taken
NextUpkeep ==
    \/ \E s \in Sessions : LoginSubmit(s, <<"a">>, "p")
    \/ \E s \in Sessions : NavButton(s, "Registrar")
    \/ \E s \in Sessions \ One : NavButton(s, "Usuarios")
    \/ \E s \in Sessions : ScriptRerun(s)
    \/ \E s \in One, file \in RaceFiles : ImportCSV(s, file)
    \/ \E s \in One, id \in FormIds : EditMachine(s, 2, id, VA, ESTADOS_MAQUINA[1])
    \/ \E s \in Sessions, id \in FormIds : RegisterMaintenance(s, id, VA)
    \/ \E s \in Sessions \ One : CreateUser(s, <<"t">>, "supervisor", "q")
    \/ \E s \in Sessions : Commit(s)

SpecUpkeep == Init /\ [][NextUpkeep]_vars

(* ------------------------------ properties ---------------------------- *)

\* the rows of a machines table with machine number id
RowsOf(table, id) == {r \in table : r["id_maquina"] = id}

\* the MACHINE_COLS values of a stored row
Payload(r) == [c \in FullMachine |-> r[c]]

\* C1: when the import runs the same upsert (same natural key, same values) twice
\* in a row, the second run leaves the table exactly as the first left it: the
\* table holds one row with that id_maquina and its column values are the payload's
C1_UpsertIdempotent ==
    (hist.kind = "upsert" /\ hist.repeat) =>
        /\ hist.same
        /\ Cardinality(RowsOf(tx.machines, hist.values["id_maquina"])) = 1
        /\ \A r \in RowsOf(tx.machines, hist.values["id_maquina"]) :
              Payload(r) = hist.values

\* C1 witness: the same upsert has just run a second time, next to another machine's row
C1_Witness ==
    /\ hist.kind = "upsert" /\ hist.repeat
    /\ RowsOf(tx.machines, hist.values["id_maquina"]) # {}
    /\ RowsOf(tx.machines, 2) # {}
    /\ hist.values["id_maquina"] # 2

\* sessions s1 and s2 have each upserted the same machine with different values
Racing(s1, s2) ==
    /\ s1 # s2
    /\ job[s1].cur # NoValues /\ job[s2].cur # NoValues
    /\ job[s1].kind # "edit" /\ job[s2].kind # "edit"
    /\ job[s1].cur["id_maquina"] = job[s2].cur["id_maquina"]
    /\ job[s1].cur # job[s2].cur

\* C2: when two sessions upsert the same id_maquina with different payloads, in
\* every interleaving of their statements and commits the table holds exactly one
\* row with that key and the row equals one of the two payloads in every column,
\* in the open transaction and, once both have committed, in the database
C2_ConcurrentUpserts ==
    \A s1, s2 \in Sessions :
        Racing(s1, s2) =>
            LET id == job[s1].cur["id_maquina"]
                One_(table) ==
                    /\ Cardinality(RowsOf(table, id)) = 1
                    /\ \A r \in RowsOf(table, id) :
                          Payload(r) \in {job[s1].cur, job[s2].cur}
            IN  /\ One_(tx.machines)
                /\ (pc[s1] # "commit" /\ pc[s2] # "commit") => One_(db.machines)

\* C2 witness: both sessions wait for their commit, having upserted machine 1
\* with different values
C2_Witness ==
    \E s1, s2 \in Sessions :
        Racing(s1, s2) /\ pc[s1] = "commit" /\ pc[s2] = "commit"

\* C3 (as the specification states it): every operation is its own unit of work,
\* committed or rolled back when it returns, so that whenever no session is inside
\* db_execute the connection has no transaction open and none aborted
C3_OwnUnitOfWork ==
    (\A s \in Sessions : pc[s] # "commit") => txStatus = "idle"

\* the filter with its text emptied for every column the rows do not have
Blank(f, cols) ==
    [f EXCEPT !.fab = IF "fabricante" \in cols THEN @ ELSE <<>>,
              !.sector = IF "sector" \in cols THEN @ ELSE <<>>,
              !.modelo = IF "modelo" \in cols THEN @ ELSE <<>>,
              !.banco = IF "banco" \in cols THEN @ ELSE <<>>]

\* C4 (as the specification states it): the rows the machines page lists under a
\* filter are the rows it would list with the filter text emptied for every column
\* the live table does not have: a filter on a missing column matches every row
C4_MissingColumnFilter ==
    (out.body = "Maquinas" /\ out.rows # <<>> /\ out.filters.estado = <<"(Todos)">>) =>
        out.filtered =
            SelectSeq(out.rows,
                      LAMBDA r : match(r, Blank(out.filters, DOMAIN out.rows[1])))

\* C5 (as the specification states it): registering a maintenance for an existing
\* machine fails when the live table has none of the inserted columns and otherwise
\* adds exactly one row
C5_AppendIntersects ==
    (out.event = "register" /\ out.found) =>
        IF ColSet(MAINT_COLS) \cap schema.maintenance = {}
        THEN out.added = 0 /\ out.msg = "error guardando"
        ELSE out.added = 1 /\ pc[out.s] = "commit"

\* C6 (as the specification states it): the import's upsert succeeds whatever
\* columns the live table has, so that a run which gave an upsert to db_execute
\* waits for its commit in a transaction that is not aborted
C6_UpsertDropsUnknown ==
    (out.event = "import" /\ "machines.write" \in out.touched) =>
        txStatus = "intrans" /\ pc[out.s] = "commit"

C9_LoginGate ==
    /\ (out.body # "none" \/ out.touched \ {"users.login"} # {}) => out.as # NoUser
    /\ \A s \in Sessions : (pc[s] = "idle" /\ user[s] = NoUser) => page[s] = "Login"
    /\ out.event = "logout" => user[out.s] = NoUser /\ page[out.s] = "Login"

\* C9 witness: a session without a user asked for the machines page and the run
\* rendered the Login page and touched no table
C9_Witness ==
    /\ out.s \in Sessions
    /\ out.requested = "Maquinas" /\ out.as = NoUser
    /\ out.body = "none" /\ out.touched = {}
    /\ page[out.s] = "Login" /\ pc[out.s] = "idle"

\* C10: a run lists the users, creates one or resets a password only for a session
\* whose user has role admin; for any other logged-in user the users page shows the
\* error and touches no table
C10_RoleGate ==
    /\ (out.touched \cap {"users.list", "users.insert", "users.reset"} # {}) =>
          out.as.role = "admin"
    /\ (out.requested = "Usuarios" /\ out.as # NoUser /\ out.as.role # "admin"
          /\ out.event # "commit") =>
          out.msg = "solo admin" /\ out.touched = {} /\ out.body = "none"

\* C10 witness: a technician asked for the users page and was refused
C10_Witness ==
    /\ out.requested = "Usuarios" /\ out.as.role = "tecnico"
    /\ out.msg = "solo admin" /\ out.touched = {}

\* the users row login_user's select finds for what the form held
LoginRows == {u \in tx.users : u.username = lower(strip(out.login.username))}

\* C11 (as the specification states it): a call of login_user sets
\* session_state["user"] to the row's user exactly when a users row exists for the
\* stripped, lower-cased username, the row is active and the password verifies
\* against its hash; in every other case it returns (False, message) and leaves
\* the session's user and page as they were
C11_LoginIff ==
    out.login.called =>
        IF \E u \in LoginRows : u.is_active /\ u.password_hash = hash(out.login.password)
        THEN /\ out.msg = "ok"
             /\ \E u \in LoginRows :
                   /\ user[out.s].id = u.id /\ user[out.s].username = u.username
                   /\ user[out.s].role = u.role
                   /\ user[out.s].nombre =
                        (IF orEmpty(u.nombre) # <<>> THEN u.nombre ELSE u.username)
        ELSE /\ out.msg \in {"no existe o desactivado", "incorrecta"}
             /\ user[out.s] = out.login.user
             /\ page[out.s] = out.login.page

\* every maintenance row of the tables t names a machine of t
Referential(t) ==
    \A i \in 1..Len(t.maintenance) :
        \E r \in t.machines : r["id_maquina"] = t.maintenance[i]["id_maquina"]

\* C12: after any sequence of uploads, machine edits and maintenance
\* registrations, every maintenance row's id_maquina is the id_maquina of an
\* existing machines row, in the committed tables and in the open transaction
C12_Referential ==
    Referential(db) /\ Referential(tx)

\* C12 witness: a committed maintenance row for machine 1, which an upload created
C12_Witness ==
    /\ \E i \in 1..Len(db.maintenance) : db.maintenance[i]["id_maquina"] = 1
    /\ \E r \in db.machines : r["id_maquina"] = 1

====
